---- MODULE Spec2Model ----
(***************************************************************************)
(* openai-api-blueprint: the SSE stream framer (utils/stream.py), the mock *)
(* chat-completion producer and endpoint (api/v1/endpoints/chat.py), and   *)
(* the two bearer-token gates (api/v1/endpoints/models.py and              *)
(* core/security.py) over the settings of core/config.py, the model       *)
(* registry (services/model_service.py), the routes (api/v1/router.py,     *)
(* main.py) and the exception handlers (core/errors.py).                   *)
(*                                                                         *)
(* A Python str is a sequence of one-character strings, so that split(),   *)
(* lower(), the token regex and json.dumps are computed character by       *)
(* character.                                                              *)
(***************************************************************************)
EXTENDS Integers, Sequences, FiniteSets, TLC

VARIABLES
    settings,      \* core.config.settings: environment and api_auth_tokens
    registry,      \* model_service.AVAILABLE_MODELS, the list the service reads
    authResult,    \* outcome of the last direct call of a get_api_key gate
    pc,            \* per request: position of its handling task
    http,          \* per request: the HTTP request as the application received it
    request,       \* per request: the parsed ChatCompletionRequest
    response,      \* per request: the non-streaming HTTP response, once made
    raw_headers,   \* per request: StreamingResponse.raw_headers
    gen,           \* per request: StreamingResponse.content_generator
    pending,       \* per request: frame yielded by _get_content_generator, not yet sent
    yielded,       \* per request: the chunks content_generator has yielded so far
    sent,          \* per request: the ASGI events passed to send(), in order
    disconnected   \* per request: the client has gone away

vars == <<settings, registry, authResult, pc, http, request, response, raw_headers, gen,
          pending, yielded, sent, disconnected>>

-----------------------------------------------------------------------------
(* Bounds of the model *)

\* Requests (connections) the server is given.
Requests == {"r1", "r2"}

\* Longest item list of a regular (non-async) generator handed to the framer.
MaxSyncItems == 2

-----------------------------------------------------------------------------
(* Strings *)

\* chat.py:51 response_content of generate_streaming_response
STREAM_RESPONSE_CONTENT ==
    <<"T","H","I","S"," ","I","S"," ","T","H","E"," ","M","O","C","K","E","D"," ","C","H","A",
      "T"," ","R","E","S","P","O","N","S","E"," ","F","R","O","M"," ","O","P","E","N","A","I",
      " ","A","P","I"," ","B","L","U","E","P","R","I","N","T","."," ","I","f"," ","y","o","u",
      " ","s","e","e"," ","t","h","i","s"," ","m","e","s","s","a","g","e",","," ","y","o","u",
      "r"," ","c","h","a","t"," ","e","n","d","p","o","i","n","t"," ","i","s"," ","w","o","r",
      "k","i","n","g"," ","c","o","r","r","e","c","t","l","y"," ","w","i","t","h"," ","s","t",
      "r","e","a","m","i","n","g","!">>
\* chat.py:135 response_content of create_chat_completion
COMPLETION_RESPONSE_CONTENT ==
    <<"T","H","I","S"," ","I","S"," ","T","H","E"," ","M","O","C","K","E","D"," ","C","H","A",
      "T"," ","R","E","S","P","O","N","S","E"," ","F","R","O","M"," ","O","P","E","N","A","I",
      " ","A","P","I"," ","B","L","U","E","P","R","I","N","T","."," ","I","f"," ","y","o","u",
      " ","s","e","e"," ","t","h","i","s"," ","m","e","s","s","a","g","e",","," ","y","o","u",
      "r"," ","c","h","a","t"," ","e","n","d","p","o","i","n","t"," ","i","s"," ","w","o","r",
      "k","i","n","g"," ","c","o","r","r","e","c","t","l","y","!">>
S_chatcmpl ==
    <<"c","h","a","t","c","m","p","l","-">>
S_chunk_object ==
    <<"c","h","a","t",".","c","o","m","p","l","e","t","i","o","n",".","c","h","u","n","k">>
S_role ==
    <<"r","o","l","e">>
S_content ==
    <<"c","o","n","t","e","n","t">>
S_assistant ==
    <<"a","s","s","i","s","t","a","n","t">>
S_stop ==
    <<"s","t","o","p">>
S_id ==
    <<"i","d">>
S_object ==
    <<"o","b","j","e","c","t">>
S_created ==
    <<"c","r","e","a","t","e","d">>
S_model ==
    <<"m","o","d","e","l">>
S_choices ==
    <<"c","h","o","i","c","e","s">>
S_index ==
    <<"i","n","d","e","x">>
S_delta ==
    <<"d","e","l","t","a">>
S_finish_reason ==
    <<"f","i","n","i","s","h","_","r","e","a","s","o","n">>
S_null ==
    <<"n","u","l","l">>
S_data_prefix ==
    <<"d","a","t","a",":"," ">>
S_bearer ==
    <<"b","e","a","r","e","r">>

UPPER ==
    <<"A","B","C","D","E","F","G","H","I","J","K","L","M","N","O","P","Q","R","S","T","U","V",
      "W","X","Y","Z">>

LOWER ==
    <<"a","b","c","d","e","f","g","h","i","j","k","l","m","n","o","p","q","r","s","t","u","v",
      "w","x","y","z">>

DIGITS ==
    <<"0","1","2","3","4","5","6","7","8","9">>

Range(f) == {f[i] : i \in DOMAIN f}

\* str.isspace() of one character.
IsSpace(c) == c \in {" ", "\t", "\n", "\r", "\f"}

\* str.lower() of one character.
LowerChar(c) ==
    IF \E i \in DOMAIN UPPER : UPPER[i] = c
    THEN LOWER[CHOOSE i \in DOMAIN UPPER : UPPER[i] = c]
    ELSE c

\* str.lower()
Lower(s) == [i \in DOMAIN s |-> LowerChar(s[i])]

\* Least index from i on whose character is (space = TRUE) or is not (FALSE)
\* whitespace; Len(s) + 1 when there is none.
Scan(s, i, space) ==
    LET hits == {j \in i..Len(s) : IsSpace(s[j]) = space} IN
    IF hits = {} THEN Len(s) + 1 ELSE CHOOSE j \in hits : \A k \in hits : j <= k

RECURSIVE SplitFrom(_, _)
SplitFrom(s, i) ==
    LET a == Scan(s, i, FALSE) IN
    IF a > Len(s) THEN <<>>
    ELSE LET b == Scan(s, a, TRUE) IN <<SubSeq(s, a, b - 1)>> \o SplitFrom(s, b)

\* str.split() with no separator: runs of whitespace separate, none is kept.
Split(s) == SplitFrom(s, 1)

RECURSIVE Flatten(_)
\* "".join(parts)
Flatten(parts) ==
    IF Len(parts) = 0 THEN <<>> ELSE Head(parts) \o Flatten(Tail(parts))

RECURSIVE JoinWith(_, _)
\* sep.join(parts)
JoinWith(sep, parts) ==
    IF Len(parts) = 0 THEN <<>>
    ELSE IF Len(parts) = 1 THEN Head(parts)
    ELSE Head(parts) \o sep \o JoinWith(sep, Tail(parts))

RECURSIVE IntToStr(_)
\* str(n) of a non-negative int
IntToStr(n) ==
    IF n < 10 THEN <<DIGITS[n + 1]>>
    ELSE IntToStr(n \div 10) \o <<DIGITS[(n % 10) + 1]>>

-----------------------------------------------------------------------------
(* json.dumps(data, ensure_ascii=False) on the chunk dicts *)

\* Optional[str]
None == [isNone |-> TRUE, s |-> <<>>]
Some(s) == [isNone |-> FALSE, s |-> s]

\* A json.dumps that copies every character as it is.
JsonEscapeChar_Raw(c) == <<c>>

\* json.encoder's escape of one character inside a string.
JsonEscapeChar(c) ==
    CASE c = "\"" -> <<"\\", "\"">>
      [] c = "\\" -> <<"\\", "\\">>
      [] c = "\n" -> <<"\\", "n">>
      [] c = "\r" -> <<"\\", "r">>
      [] c = "\t" -> <<"\\", "t">>
      [] c = "\f" -> <<"\\", "f">>
      [] OTHER -> <<c>>

JsonString(s) ==
    <<"\"">> \o Flatten([i \in DOMAIN s |-> JsonEscapeChar(s[i])]) \o <<"\"">>

JsonOptString(o) == IF o.isNone THEN S_null ELSE JsonString(o.s)

\* "key": value
JsonMember(key, valueText) == JsonString(key) \o <<":", " ">> \o valueText

\* {"k1": v1, "k2": v2} with the members in insertion order
JsonObject(members) == <<"{">> \o JoinWith(<<",", " ">>, members) \o <<"}">>

\* delta: an ordered dict str -> str, as a sequence of <<key, value>>
JsonDelta(delta) ==
    JsonObject([i \in DOMAIN delta |-> JsonMember(delta[i][1], JsonString(delta[i][2]))])

JsonChoice(ch) ==
    JsonObject(<<JsonMember(S_index, IntToStr(ch.index)),
                 JsonMember(S_delta, JsonDelta(ch.delta)),
                 JsonMember(S_finish_reason, JsonOptString(ch.finish_reason))>>)

JsonDumps(chunk) ==
    JsonObject(<<JsonMember(S_id, JsonString(chunk.id)),
                 JsonMember(S_object, JsonString(chunk.object)),
                 JsonMember(S_created, IntToStr(chunk.created)),
                 JsonMember(S_model, JsonString(chunk.model)),
                 JsonMember(S_choices,
                            <<"[">> \o JoinWith(<<",", " ">>,
                                [i \in DOMAIN chunk.choices |-> JsonChoice(chunk.choices[i])])
                            \o <<"]">>)>>)

\* StreamingResponse._serialize_chunk
SerializeChunk(data) == S_data_prefix \o JsonDumps(data) \o <<"\n", "\n">>

\* StreamingResponse._serialize_done
SerializeDone ==
    <<"d","a","t","a",":"," ","[","D","O","N","E","]","\n","\n">>

-----------------------------------------------------------------------------
(* Inputs: tokens, header values, model ids, message texts *)

\* config.py:26,122 f"{TEST_TOKEN_PREFIX}key"
TEST_TOKEN ==
    <<"t","e","s","t","_","k","e","y">>
\* config.py:25,115 f"{DEV_TOKEN_PREFIX}{secrets.token_urlsafe(16)}", one value of it
DEV_TOKEN ==
    <<"d","e","v","_","Z","m","9","v","Y","m","F","y","L","W","J","h","e","l","9","x","d","X",
      "V","4","M","Q">>
\* a configured or presented key: allowed characters, 22 long
TOK_LONG ==
    <<"s","k","-","l","i","v","e","_","0","1","2","3","4","5","6","7","8","9",".","a","b","c">>
\* allowed characters, shorter than MIN_TOKEN_LENGTH
TOK_SHORT ==
    <<"a","b","c">>
\* has a character outside TOKEN_PATTERN, 20 long
TOK_BADCHAR ==
    <<"k","e","y","!","0","1","2","3","4","5","6","7","8","9","a","b","c","d","e","f">>
\* has inner whitespace (API_AUTH_TOKENS is split on commas only), 20 long
TOK_SPACED ==
    <<"t","w","o"," ","w","o","r","d","s"," ","0","1","2","3","4","5","6","7","8","9">>
S_Bearer ==
    <<"B","e","a","r","e","r">>
S_BEARER_upper ==
    <<"B","E","A","R","E","R">>
S_Token_abc ==
    <<"T","o","k","e","n"," ","a","b","c">>
\* a model id a request names
MODEL_STANDARD ==
    <<"b","l","u","e","p","r","i","n","t","-","s","t","a","n","d","a","r","d">>
\* a model id with a quote, a raw newline and a backslash in it
MODEL_ODD ==
    <<"a","\"","\n","\\","b">>
S_Hello ==
    <<"H","e","l","l","o","!">>
S_line_break ==
    <<"x","\n","y">>

\* model_service.AVAILABLE_MODELS ids (with MODEL_STANDARD) and owner
MODEL_ADVANCED ==
    <<"b","l","u","e","p","r","i","n","t","-","a","d","v","a","n","c","e","d">>
MODEL_EXPERIMENTAL ==
    <<"b","l","u","e","p","r","i","n","t","-","e","x","p","e","r","i","m","e","n","t","a","l">>
OWNED_BY ==
    <<"o","p","e","n","a","i","-","a","p","i","-","b","l","u","e","p","r","i","n","t">>
\* test_chat.py: a model id that is in no registry
MODEL_UNKNOWN ==
    <<"n","o","t","-","a","-","r","e","a","l","-","m","o","d","e","l">>
\* error messages of api.v1.endpoints.models.get_api_key
MSG_MISSING_API_KEY ==
    <<"M","i","s","s","i","n","g"," ","A","P","I"," ","k","e","y">>
MSG_INVALID_FORMAT ==
    <<"I","n","v","a","l","i","d"," ","a","u","t","h","e","n","t","i","c","a","t","i","o","n",
      " ","f","o","r","m","a","t","."," ","U","s","e"," ","'","B","e","a","r","e","r"," ","Y",
      "O","U","R","_","T","O","K","E","N","'">>
MSG_INVALID_KEY ==
    <<"I","n","v","a","l","i","d"," ","A","P","I"," ","k","e","y">>
\* generic_exception_handler
MSG_INTERNAL ==
    <<"A","n"," ","u","n","e","x","p","e","c","t","e","d"," ","e","r","r","o","r"," ","o","c",
      "c","u","r","r","e","d","."," ","P","l","e","a","s","e"," ","t","r","y"," ","a","g","a",
      "i","n"," ","l","a","t","e","r",".">>
\* msg of the first error of a RequestValidationError: a missing field, unreadable JSON
MSG_FIELD_REQUIRED ==
    <<"F","i","e","l","d"," ","r","e","q","u","i","r","e","d">>
MSG_JSON_DECODE ==
    <<"J","S","O","N"," ","d","e","c","o","d","e"," ","e","r","r","o","r">>
\* parts of loc and of messages
S_body ==
    <<"b","o","d","y">>
S_messages ==
    <<"m","e","s","s","a","g","e","s">>
S_at ==
    <<" ","a","t"," ">>
S_Model_quote ==
    <<"M","o","d","e","l"," ","'">>
S_not_found ==
    <<"'"," ","n","o","t"," ","f","o","u","n","d">>
S_model_id ==
    <<"m","o","d","e","l","_","i","d">>
\* read_v1_root and health_check bodies
WELCOME ==
    <<"W","e","l","c","o","m","e"," ","t","o"," ","O","p","e","n","A","I"," ","A","P","I"," ",
      "B","l","u","e","p","r","i","n","t"," ","-"," ","V","e","r","s","i","o","n"," ","1">>
S_status ==
    <<"s","t","a","t","u","s">>
S_ok ==
    <<"o","k">>
S_message ==
    <<"m","e","s","s","a","g","e">>

\* Longest API_AUTH_TOKENS list a deployment configures.
MaxTokens == 2

\* core.config.MIN_TOKEN_LENGTH
MIN_TOKEN_LENGTH == 16

Environments == {"development", "test", "staging", "production"}

\* Tokens an operator may configure and a caller may present.
TokenUniverse == {TEST_TOKEN, TOK_LONG, TOK_SHORT, TOK_BADCHAR, TOK_SPACED}

\* The lists API_AUTH_TOKENS can yield: up to MaxTokens distinct tokens, in order.
RECURSIVE TokenListsOfLen(_)
TokenListsOfLen(n) ==
    IF n = 0 THEN {<<>>}
    ELSE {Append(l, t) : l \in TokenListsOfLen(n - 1), t \in TokenUniverse}

RawTokenLists ==
    {l \in UNION {TokenListsOfLen(n) : n \in 0..MaxTokens} :
        \A i, j \in DOMAIN l : i # j => l[i] # l[j]}

\* An HTTP header that may be absent (FastAPI's Header(None)).
NoHeader == [present |-> FALSE, value |-> <<>>]
HeaderOf(v) == [present |-> TRUE, value |-> v]

BearerHeader(t) == HeaderOf(S_Bearer \o <<" ">> \o t)

AuthHeaders ==
    {NoHeader, HeaderOf(<<>>), HeaderOf(S_Bearer), HeaderOf(S_Token_abc)}
    \cup {BearerHeader(t) : t \in TokenUniverse \cup {DEV_TOKEN}}
    \cup {HeaderOf(S_BEARER_upper \o <<" ", "\t">> \o TOK_LONG),
          HeaderOf(Lower(S_Bearer) \o <<" ">> \o TEST_TOKEN)}

-----------------------------------------------------------------------------
(* core/config.py: Settings *)

IsProdOrStaging(env) == env \in {"production", "staging"}

\* A validator that warns about a short token in every environment.
ValidateSettings_NoLengthCheck(env, tokens) ==
    LET current ==
            IF tokens = <<>>
            THEN IF env = "development" THEN <<DEV_TOKEN>>
                 ELSE IF env = "test" THEN <<TEST_TOKEN>>
                 ELSE <<>>
            ELSE tokens
        noTokens == tokens = <<>> /\ IsProdOrStaging(env)
    IN  [ok |-> ~noTokens,
         settings |-> [environment |-> env, api_auth_tokens |-> current]]

\* Settings._validate_settings_post_init on (environment, api_auth_tokens):
\* ok = FALSE is the ValueError that stops the process from loading.
ValidateSettings(env, tokens) ==
    LET current ==
            IF tokens = <<>>
            THEN IF env = "development" THEN <<DEV_TOKEN>>
                 ELSE IF env = "test" THEN <<TEST_TOKEN>>
                 ELSE <<>>
            ELSE tokens
        noTokens == tokens = <<>> /\ IsProdOrStaging(env)
        tooShort == IsProdOrStaging(env)
                    /\ \E i \in DOMAIN current : Len(current[i]) < MIN_TOKEN_LENGTH
    IN  [ok |-> ~noTokens /\ ~tooShort,
         settings |-> [environment |-> env, api_auth_tokens |-> current]]

\* The settings objects the main loading block can leave in core.config.settings.
LoadedSettings ==
    {ValidateSettings(e, l).settings :
        <<e, l>> \in {p \in Environments \X RawTokenLists : ValidateSettings(p[1], p[2]).ok}}

\* The settings of the test suite: ENVIRONMENT=test, no API_AUTH_TOKENS.
TestSettings == ValidateSettings("test", <<>>).settings

-----------------------------------------------------------------------------
(* The two get_api_key dependencies *)

Accept(token) ==
    [accepted |-> TRUE, token |-> token, status |-> 200, type |-> "", code |-> ""]

Reject401(code) ==
    [accepted |-> FALSE, token |-> <<>>, status |-> 401,
     type |-> "authentication_error", code |-> code]

\* `not authorization`: None or the empty string
HeaderMissing(h) == ~h.present \/ h.value = <<>>

\* `len(parts) != 2 or parts[0].lower() != "bearer"`
NotBearerFormat(parts) == Len(parts) # 2 \/ Lower(parts[1]) # S_bearer

\* The check with the membership test left out.
NotAllowed_EmptyListOnly(token, s) == s.api_auth_tokens = <<>>

\* `token not in settings.api_auth_tokens`, with the `not settings.api_auth_tokens` guard
NotAllowed(token, s) ==
    s.api_auth_tokens = <<>> \/ token \notin Range(s.api_auth_tokens)

\* core.security.TOKEN_PATTERN = ^[a-zA-Z0-9_\-\.]+$ matched against a token
\* (a token is a part of split(), so it holds no newline for `$` to skip)
TokenPatternMatch(token) ==
    /\ token # <<>>
    /\ \A i \in DOMAIN token :
          token[i] \in Range(UPPER) \cup Range(LOWER) \cup Range(DIGITS) \cup {"_", "-", "."}

\* A route dependency that wants the scheme spelled "Bearer".
RouteGetApiKey_CaseSensitive(h, s) ==
    IF HeaderMissing(h) THEN Reject401("missing_api_key")
    ELSE LET parts == Split(h.value) IN
         IF Len(parts) # 2 \/ parts[1] # S_Bearer THEN Reject401("invalid_format")
         ELSE IF NotAllowed(parts[2], s) THEN Reject401("invalid_key")
         ELSE Accept(parts[2])

\* api.v1.endpoints.models.get_api_key: the dependency the routes use
RouteGetApiKey(h, s) ==
    IF HeaderMissing(h) THEN Reject401("missing_api_key")
    ELSE LET parts == Split(h.value) IN
         IF NotBearerFormat(parts) THEN Reject401("invalid_format")
         ELSE IF NotAllowed(parts[2], s) THEN Reject401("invalid_key")
         ELSE Accept(parts[2])

\* core.security.get_api_key
SecurityGetApiKey(h, s) ==
    IF HeaderMissing(h) THEN Reject401("missing_api_key")
    ELSE LET parts == Split(h.value) IN
         IF NotBearerFormat(parts) THEN Reject401("invalid_auth_format")
         ELSE IF ~TokenPatternMatch(parts[2]) THEN Reject401("invalid_key_format")
         ELSE IF Len(parts[2]) < MIN_TOKEN_LENGTH /\ IsProdOrStaging(s.environment)
              THEN Reject401("invalid_key_length")
         ELSE IF NotAllowed(parts[2], s) THEN Reject401("invalid_key")
         ELSE Accept(parts[2])

-----------------------------------------------------------------------------
(* api/v1/endpoints/chat.py: the mock producer *)

\* uuid.uuid4().hex, two of its values
UuidHex == {<<"0","a","1","b">>, <<"f","9","e","8">>}

\* int(time.time()), two of its values
Clock == {1700000000, 1700000001}

ModelIds == {MODEL_STANDARD, MODEL_ODD, MODEL_UNKNOWN}

\* request.messages: role and Optional content
MessageLists ==
    {<<[role |-> "user", content |-> Some(S_Hello)]>>,
     <<[role |-> "system", content |-> None],
       [role |-> "user", content |-> Some(S_line_break)]>>}

ChatRequests ==
    [model : ModelIds, messages : MessageLists, stream : BOOLEAN]

NoRequest == [model |-> <<>>, messages |-> <<>>, stream |-> FALSE]

\* words = response_content.split()
Words == Split(STREAM_RESPONSE_CONTENT)

Chunk(id, created, model, delta, finish_reason) ==
    [id |-> id, object |-> S_chunk_object, created |-> created, model |-> model,
     choices |-> <<[index |-> 0, delta |-> delta, finish_reason |-> finish_reason]>>]

\* The role written into every delta.
WordDelta_RoleEverywhere(i, word) ==
    <<<<S_role, S_assistant>>, <<S_content, word \o <<" ">>>>>>

\* The words without the space that separates them.
WordDelta_NoSeparator(i, word) ==
    IF i > 0
    THEN <<<<S_content, word>>>>
    ELSE <<<<S_role, S_assistant>>, <<S_content, word>>>>

\* The delta of the i-th word (i as enumerate() counts, from 0).
WordDelta(i, word) ==
    IF i > 0
    THEN <<<<S_content, IF i > 0 THEN word \o <<" ">> ELSE word>>>>
    ELSE <<<<S_role, S_assistant>>, <<S_content, word \o <<" ">>>>>>

\* A chunk stamped with a time of its own.
WordChunk_FreshCreated(g, i) ==
    Chunk(g.response_id, g.created + i, g.model, WordDelta(i, Words[i + 1]), None)

\* The chunk built in the body of `for i, word in enumerate(words)`.
WordChunk(g, i) ==
    Chunk(g.response_id, g.created, g.model, WordDelta(i, Words[i + 1]), None)

\* A final chunk that leaves finish_reason null.
FinalChunk_NoFinishReason(g) ==
    Chunk(g.response_id, g.created, g.model, <<>>, None)

\* The final chunk, yielded after the loop.
FinalChunk(g) ==
    Chunk(g.response_id, g.created, g.model, <<>>, Some(S_stop))

\* A generator object. kind: "chat" is generate_streaming_response(request), an
\* async generator; "list" is a regular generator over items. state: created,
\* yielded (suspended at a yield), slept (the sleep after the yield is over),
\* exhausted, raised. i counts the chunks taken from words / items; final: the
\* final chunk has been yielded.
NoGen ==
    [kind |-> "none", state |-> "created", i |-> 0, final |-> FALSE,
     response_id |-> <<>>, created |-> 0, model |-> <<>>, items |-> <<>>]

ChatGen(req) == [NoGen EXCEPT !.kind = "chat", !.model = req.model]

ListGen(items) == [NoGen EXCEPT !.kind = "list", !.items = items]

\* A generator that goes on to its next chunk with no sleep in between.
GenReady_NoSleep(g) == g.state \in {"created", "slept", "yielded"}

\* The generator can run to its next yield or to its end without sleeping first.
GenReady(g) ==
    \/ g.state \in {"created", "slept"}
    \/ g.kind = "chat" /\ g.state = "yielded" /\ g.final

\* generate_streaming_response resumed: [g |-> the generator after, stop |->
\* it returned, chunk |-> what it yielded]. uuid and now are read on the first
\* resumption only.
ChatGenNext(g, uuid, now) ==
    LET g1 == IF g.state = "created"
              THEN [g EXCEPT !.response_id = S_chatcmpl \o uuid, !.created = now]
              ELSE g
    IN  IF g1.final
        THEN [g |-> [g1 EXCEPT !.state = "exhausted"], stop |-> TRUE, chunk |-> FinalChunk(g1)]
        ELSE IF g1.i < Len(Words)
        THEN [g |-> [g1 EXCEPT !.state = "yielded", !.i = g1.i + 1],
              stop |-> FALSE, chunk |-> WordChunk(g1, g1.i)]
        ELSE [g |-> [g1 EXCEPT !.state = "yielded", !.final = TRUE],
              stop |-> FALSE, chunk |-> FinalChunk(g1)]

\* next() on a regular generator over items
ListGenNext(g) ==
    IF g.i < Len(g.items)
    THEN [g |-> [g EXCEPT !.state = "yielded", !.i = g.i + 1],
          stop |-> FALSE, chunk |-> g.items[g.i + 1]]
    ELSE [g |-> [g EXCEPT !.state = "exhausted"], stop |-> TRUE, chunk |-> FinalChunk(g)]

GenNext(g, uuid, now) ==
    IF g.kind = "chat" THEN ChatGenNext(g, uuid, now) ELSE ListGenNext(g)

\* Chunks a caller's regular generator may hold.
SyncChunks ==
    {Chunk(<<"c","1">>, 7, MODEL_ODD, <<<<S_content, S_line_break>>>>, None),
     Chunk(<<"c","2">>, 8, MODEL_STANDARD, <<>>, Some(S_stop))}

RECURSIVE SyncItemsOfLen(_)
SyncItemsOfLen(n) ==
    IF n = 0 THEN {<<>>}
    ELSE {Append(l, c) : l \in SyncItemsOfLen(n - 1), c \in SyncChunks}

SyncItemLists == UNION {SyncItemsOfLen(n) : n \in 0..MaxSyncItems}

\* headers= a caller may pass to StreamingResponse
UserHeaders == {<<>>, <<<<"X-Accel-Buffering", "no">>>>}

-----------------------------------------------------------------------------
(* utils/stream.py: StreamingResponse *)

\* __init__ without the Transfer-Encoding header.
InitRawHeaders_NoTransferEncoding(headers) ==
    headers \o <<<<"Content-Type", "text/event-stream">>,
                 <<"Cache-Control", "no-cache">>,
                 <<"Connection", "keep-alive">>>>

\* __init__: the caller's headers, then the four SSE headers
InitRawHeaders(headers) ==
    headers \o <<<<"Content-Type", "text/event-stream">>,
                 <<"Cache-Control", "no-cache">>,
                 <<"Connection", "keep-alive">>,
                 <<"Transfer-Encoding", "chunked">>>>

StartEvent(status, headers) ==
    [type |-> "http.response.start", status |-> status, headers |-> headers]

\* body is the frame text; .encode("utf-8") does not change what is compared here
BodyEvent(body, more) ==
    [type |-> "http.response.body", body |-> body, more_body |-> more]

Streaming(r) == pc[r] \in {"start", "pull", "send", "done", "end"}

-----------------------------------------------------------------------------
(* services/model_service.py: the model registry *)

\* models.openai.Model: object is the literal "model"
Model(id, created, owned_by) ==
    [id |-> id, object |-> "model", created |-> created, owned_by |-> owned_by]

\* The list as built when the module is imported (here at time 1700000000).
AVAILABLE_MODELS ==
    <<Model(MODEL_STANDARD, 1700000000 - 10000, OWNED_BY),
      Model(MODEL_ADVANCED, 1700000000 - 20000, OWNED_BY),
      Model(MODEL_EXPERIMENTAL, 1700000000 - 5000, OWNED_BY)>>

\* ModelList(data=AVAILABLE_MODELS)
list_models == [object |-> "list", data |-> registry]

\* HTTPException(status_code=..., detail={"error": {...}}); param "" is no param key
HTTPException(status_code, message, type, param, code) ==
    [status_code |-> status_code,
     error |-> [message |-> message, type |-> type, param |-> param, code |-> code]]

\* get_model with its 404 carrying no param.
get_model_NoParam(model_id) ==
    LET hits == {i \in DOMAIN registry : registry[i].id = model_id} IN
    IF hits # {}
    THEN [found |-> TRUE, model |-> registry[CHOOSE i \in hits : \A j \in hits : i <= j]]
    ELSE [found |-> FALSE,
          exc |-> HTTPException(404, S_Model_quote \o model_id \o S_not_found,
                                "invalid_request_error", <<>>, "model_not_found")]

\* get_model: the first entry with that id, else the 404 HTTPException
get_model(model_id) ==
    LET hits == {i \in DOMAIN registry : registry[i].id = model_id} IN
    IF hits # {}
    THEN [found |-> TRUE, model |-> registry[CHOOSE i \in hits : \A j \in hits : i <= j]]
    ELSE [found |-> FALSE,
          exc |-> HTTPException(404, S_Model_quote \o model_id \o S_not_found,
                                "invalid_request_error", S_model_id, "model_not_found")]

-----------------------------------------------------------------------------
(* HTTP requests *)

Routes == {"health", "v1_root", "list_models", "get_model", "chat"}

\* The model_id path parameter of GET /v1/models/{model_id}
PathModelIds == {MODEL_STANDARD, MODEL_ADVANCED, MODEL_EXPERIMENTAL, MODEL_UNKNOWN}

\* The body of a POST: absent, text that json.loads rejects at character pos,
\* or a JSON object with or without its model and messages members.
NoBody ==
    [kind |-> "absent", pos |-> 0, has_model |-> FALSE, model |-> <<>>,
     has_messages |-> FALSE, messages |-> <<>>, stream |-> FALSE]

\* the text `{`, which json.loads rejects at character 1
MalformedBody == [NoBody EXCEPT !.kind = "malformed", !.pos = 1]

JsonBody(req) ==
    [kind |-> "json", pos |-> 0, has_model |-> TRUE, model |-> req.model,
     has_messages |-> TRUE, messages |-> req.messages, stream |-> req.stream]

ChatBodies ==
    {NoBody, MalformedBody}
    \cup {JsonBody(req) : req \in ChatRequests}
    \cup {[JsonBody(req) EXCEPT !.has_messages = FALSE, !.messages = <<>>] :
             req \in ChatRequests}
    \cup {[JsonBody(req) EXCEPT !.has_model = FALSE, !.model = <<>>] : req \in ChatRequests}

\* Exceptions nothing in the handlers expects.
Exceptions == {"RuntimeError", "KeyError"}

\* A request as the application receives it; exc is the unexpected exception
\* its handler raised, if any.
NoHttp ==
    [route |-> "none", authorization |-> NoHeader, model_id |-> <<>>, body |-> NoBody,
     exc |-> ""]

HttpRequest(route, h, model_id, body) ==
    [route |-> route, authorization |-> h, model_id |-> model_id, body |-> body, exc |-> ""]

\* The requests a client can make of the routes.
HttpRequests ==
    {HttpRequest(route, h, <<>>, NoBody) :
        route \in {"health", "v1_root", "list_models"}, h \in AuthHeaders}
    \cup {HttpRequest("get_model", h, id, NoBody) : h \in AuthHeaders, id \in PathModelIds}
    \cup {HttpRequest("chat", h, <<>>, body) : h \in AuthHeaders, body \in ChatBodies}

\* A part of the loc of a validation error: a field name or a position
LocName(name) == [isIndex |-> FALSE, name |-> name, index |-> 0]
LocIndex(n) == [isIndex |-> TRUE, name |-> <<>>, index |-> n]

\* Reading the JSON body fails: RequestValidationError with loc ("body", e.pos)
JsonInvalid(body) ==
    [ok |-> FALSE, loc |-> <<LocName(S_body), LocIndex(body.pos)>>, msg |-> MSG_JSON_DECODE,
     request |-> NoRequest]

\* The body against ChatCompletionRequest (model and messages are required,
\* stream defaults to False): the request, or the first error of the
\* RequestValidationError.
ValidateBody(body) ==
    IF body.kind = "absent"
    THEN [ok |-> FALSE, loc |-> <<LocName(S_body)>>, msg |-> MSG_FIELD_REQUIRED, request |-> NoRequest]
    ELSE IF ~body.has_model
    THEN [ok |-> FALSE, loc |-> <<LocName(S_body), LocName(S_model)>>, msg |-> MSG_FIELD_REQUIRED,
          request |-> NoRequest]
    ELSE IF ~body.has_messages
    THEN [ok |-> FALSE, loc |-> <<LocName(S_body), LocName(S_messages)>>, msg |-> MSG_FIELD_REQUIRED,
          request |-> NoRequest]
    ELSE [ok |-> TRUE, loc |-> <<>>, msg |-> <<>>,
          request |-> [model |-> body.model, messages |-> body.messages,
                       stream |-> body.stream]]

-----------------------------------------------------------------------------
(* HTTP responses *)

\* msg.content or ""
ContentOrEmpty(msg) == IF msg.content.isNone THEN <<>> ELSE msg.content.s

\* The messages counted, not their characters.
PromptTokens_CountMessages(req) == Len(req.messages)

\* len("".join([msg.content or "" for msg in request.messages]))
PromptTokens(req) ==
    Len(Flatten([i \in DOMAIN req.messages |-> ContentOrEmpty(req.messages[i])]))

\* status 0: no response. envelope is the top-level key of an error body, the
\* four fields after it are the members of the object under "error"; object,
\* data and payload describe a success body.
NoResponse ==
    [status |-> 0, envelope |-> "", message |-> <<>>, type |-> "", param |-> <<>>,
     code |-> "", object |-> "", data |-> <<>>, payload |-> <<>>,
     model |-> <<>>, content |-> <<>>, finish_reason |-> "",
     prompt_tokens |-> 0, completion_tokens |-> 0, total_tokens |-> 0]

\* An HTTPException reaches the client as {"detail": exc.detail} with its status.
HTTPExceptionResponse(exc) ==
    [NoResponse EXCEPT
        !.status = exc.status_code,
        !.envelope = "detail",
        !.message = exc.error.message,
        !.type = exc.error.type,
        !.param = exc.error.param,
        !.code = exc.error.code]

\* The message api.v1.endpoints.models.get_api_key puts next to each code.
RouteGateMessage(code) ==
    CASE code = "missing_api_key" -> MSG_MISSING_API_KEY
      [] code = "invalid_format" -> MSG_INVALID_FORMAT
      [] OTHER -> MSG_INVALID_KEY

\* The HTTPException raised by the get_api_key dependency of the routes
ErrorResponse(a) ==
    HTTPExceptionResponse(HTTPException(a.status, RouteGateMessage(a.code), a.type, <<>>,
                                        a.code))

\* str(loc) of a part of an error's loc
LocStr(l) == IF l.isIndex THEN IntToStr(l.index) ELSE l.name

\* `if loc`: a part of loc that is truthy (0 and "" are not)
LocTruthy(l) == IF l.isIndex THEN l.index # 0 ELSE Len(l.name) > 0

RECURSIVE TruthyLocs(_)
\* [str(loc) for loc in error_loc if loc]
TruthyLocs(loc) ==
    IF Len(loc) = 0 THEN <<>>
    ELSE IF LocTruthy(Head(loc)) THEN <<LocStr(Head(loc))>> \o TruthyLocs(Tail(loc))
    ELSE TruthyLocs(Tail(loc))

\* The handler answering with FastAPI's own status for a validation error.
ValidationErrorResponse_Unprocessable(err) ==
    LET error_param == JoinWith(<<".">>, TruthyLocs(err.loc))
        error_message == IF Len(error_param) > 0 THEN err.msg \o S_at \o error_param
                         ELSE err.msg
    IN  [NoResponse EXCEPT
            !.status = 422, !.envelope = "error", !.message = error_message,
            !.type = "invalid_request_error", !.param = error_param,
            !.code = "validation_error"]

\* core.errors.validation_exception_handler on the first error of the exception
ValidationErrorResponse(err) ==
    LET error_param == JoinWith(<<".">>, TruthyLocs(err.loc))
        error_message == IF Len(error_param) > 0 THEN err.msg \o S_at \o error_param
                         ELSE err.msg
    IN  [NoResponse EXCEPT
            !.status = 400, !.envelope = "error", !.message = error_message,
            !.type = "invalid_request_error", !.param = error_param,
            !.code = "validation_error"]

\* A handler that answers with str(exc).
InternalErrorResponse_Leaky(exc) ==
    [NoResponse EXCEPT
        !.status = 500, !.envelope = "error",
        !.message = <<exc>>,
        !.type = "server_error", !.code = "internal_server_error"]

\* core.errors.generic_exception_handler: exc is logged, not answered
InternalErrorResponse(exc) ==
    [NoResponse EXCEPT
        !.status = 500, !.envelope = "error", !.message = MSG_INTERNAL,
        !.type = "server_error", !.code = "internal_server_error"]

\* main.health_check: {"status": "ok"}
HealthResponse == [NoResponse EXCEPT !.status = 200, !.payload = <<S_status, S_ok>>]

\* router.read_v1_root: {"message": "Welcome ..."}
V1RootResponse == [NoResponse EXCEPT !.status = 200, !.payload = <<S_message, WELCOME>>]

\* list_models_endpoint: the ModelList
ListModelsResponse ==
    [NoResponse EXCEPT !.status = 200, !.object = list_models.object,
                       !.data = list_models.data]

\* get_model_endpoint: the Model
ModelResponse(m) == [NoResponse EXCEPT !.status = 200, !.object = m.object, !.data = <<m>>]

\* A usage whose total leaves the prompt out.
CompletionResponse_TotalWithoutPrompt(req) ==
    [NoResponse EXCEPT
        !.status = 200,
        !.object = "chat.completion",
        !.model = req.model,
        !.content = COMPLETION_RESPONSE_CONTENT,
        !.finish_reason = "stop",
        !.prompt_tokens = PromptTokens(req),
        !.completion_tokens = Len(COMPLETION_RESPONSE_CONTENT),
        !.total_tokens = Len(COMPLETION_RESPONSE_CONTENT)]

\* JSONResponse(content=response.model_dump())
CompletionResponse(req) ==
    [NoResponse EXCEPT
        !.status = 200,
        !.object = "chat.completion",
        !.model = req.model,
        !.content = COMPLETION_RESPONSE_CONTENT,
        !.finish_reason = "stop",
        !.prompt_tokens = PromptTokens(req),
        !.completion_tokens = Len(COMPLETION_RESPONSE_CONTENT),
        !.total_tokens = PromptTokens(req) + Len(COMPLETION_RESPONSE_CONTENT)]

-----------------------------------------------------------------------------
(* What each route answers to a request *)

\* GET /v1/models: Depends(get_api_key), then list_models_endpoint
AnswerListModels(h, s) ==
    LET a == RouteGetApiKey(h, s) IN
    IF ~a.accepted THEN ErrorResponse(a) ELSE ListModelsResponse

\* The route looking the model up before it authenticates the caller.
AnswerGetModel_LookupFirst(h, model_id, s) ==
    LET m == get_model(model_id) IN
    IF ~m.found THEN HTTPExceptionResponse(m.exc)
    ELSE LET a == RouteGetApiKey(h, s) IN
         IF ~a.accepted THEN ErrorResponse(a) ELSE ModelResponse(m.model)

\* GET /v1/models/{model_id}: Depends(get_api_key), then get_model_endpoint
AnswerGetModel(h, model_id, s) ==
    LET a == RouteGetApiKey(h, s) IN
    IF ~a.accepted THEN ErrorResponse(a)
    ELSE LET m == get_model(model_id) IN
         IF m.found THEN ModelResponse(m.model) ELSE HTTPExceptionResponse(m.exc)

\* POST /v1/chat/completions. The body parameter makes FastAPI read the JSON
\* body before it solves the dependencies; get_api_key runs next, then the
\* body is validated against ChatCompletionRequest, then create_chat_completion
\* runs: streams is its StreamingResponse, response its JSONResponse.
AnswerChat(h, body, s) ==
    IF body.kind = "malformed"
    THEN [streams |-> FALSE, request |-> NoRequest,
          response |-> ValidationErrorResponse(JsonInvalid(body))]
    ELSE LET a == RouteGetApiKey(h, s) IN
         IF ~a.accepted
         THEN [streams |-> FALSE, request |-> NoRequest, response |-> ErrorResponse(a)]
         ELSE LET v == ValidateBody(body) IN
              IF ~v.ok
              THEN [streams |-> FALSE, request |-> NoRequest,
                    response |-> ValidationErrorResponse(v)]
              ELSE IF v.request.stream
              THEN [streams |-> TRUE, request |-> v.request, response |-> NoResponse]
              ELSE [streams |-> FALSE, request |-> v.request,
                    response |-> CompletionResponse(v.request)]

-----------------------------------------------------------------------------
(* Initial states *)

NoAuthResult == [gate |-> "none", header |-> NoHeader, outcome |-> Reject401("")]

\* Requests the scenario serves; the others are never made.
InitRequests(served) ==
    /\ pc = [r \in Requests |-> IF r \in served THEN "idle" ELSE "unused"]
    /\ http = [r \in Requests |-> NoHttp]
    /\ request = [r \in Requests |-> NoRequest]
    /\ response = [r \in Requests |-> NoResponse]
    /\ raw_headers = [r \in Requests |-> <<>>]
    /\ gen = [r \in Requests |-> NoGen]
    /\ pending = [r \in Requests |-> <<>>]
    /\ yielded = [r \in Requests |-> <<>>]
    /\ sent = [r \in Requests |-> <<>>]
    /\ disconnected = [r \in Requests |-> FALSE]

\* The application as the test suite starts it, about to serve one request.
Init ==
    /\ settings = TestSettings
    /\ registry = AVAILABLE_MODELS
    /\ authResult = NoAuthResult
    /\ InitRequests({"r1"})

\* Any settings the process can load; only the gates are called.
InitAuth ==
    /\ settings \in LoadedSettings
    /\ registry = AVAILABLE_MODELS
    /\ authResult = NoAuthResult
    /\ InitRequests({})

-----------------------------------------------------------------------------
(* Actions *)

\* A direct call of api.v1.endpoints.models.get_api_key
CallRouteGate(h) ==
    /\ authResult' = [gate |-> "route", header |-> h, outcome |-> RouteGetApiKey(h, settings)]
    /\ UNCHANGED <<settings, registry, pc, http, request, response, raw_headers, gen, pending, yielded,
                   sent, disconnected>>

\* A direct call of core.security.get_api_key
CallSecurityGate(h) ==
    /\ authResult' = [gate |-> "security", header |-> h,
                      outcome |-> SecurityGetApiKey(h, settings)]
    /\ UNCHANGED <<settings, registry, pc, http, request, response, raw_headers, gen, pending, yielded,
                   sent, disconnected>>

\* GET /health: health_check, no dependency
HealthCheck(r, h) ==
    /\ pc[r] = "idle"
    /\ http' = [http EXCEPT ![r] = HttpRequest("health", h, <<>>, NoBody)]
    /\ response' = [response EXCEPT ![r] = HealthResponse]
    /\ pc' = [pc EXCEPT ![r] = "responded"]
    /\ UNCHANGED <<settings, registry, authResult, request, raw_headers, gen, pending, yielded, sent,
                   disconnected>>

\* GET /v1/: read_v1_root, no dependency
ReadV1Root(r, h) ==
    /\ pc[r] = "idle"
    /\ http' = [http EXCEPT ![r] = HttpRequest("v1_root", h, <<>>, NoBody)]
    /\ response' = [response EXCEPT ![r] = V1RootResponse]
    /\ pc' = [pc EXCEPT ![r] = "responded"]
    /\ UNCHANGED <<settings, registry, authResult, request, raw_headers, gen, pending, yielded, sent,
                   disconnected>>

\* A listing that takes the first model off the list it answers from.
ListModelsEndpoint_Pops(r, h) ==
    /\ pc[r] = "idle"
    /\ http' = [http EXCEPT ![r] = HttpRequest("list_models", h, <<>>, NoBody)]
    /\ response' = [response EXCEPT ![r] = AnswerListModels(h, settings)]
    /\ pc' = [pc EXCEPT ![r] = "responded"]
    /\ registry' = Tail(registry)
    /\ UNCHANGED <<settings, authResult, request, raw_headers, gen, pending, yielded, sent,
                   disconnected>>

\* GET /v1/models
ListModelsEndpoint(r, h) ==
    /\ pc[r] = "idle"
    /\ http' = [http EXCEPT ![r] = HttpRequest("list_models", h, <<>>, NoBody)]
    /\ response' = [response EXCEPT ![r] = AnswerListModels(h, settings)]
    /\ pc' = [pc EXCEPT ![r] = "responded"]
    /\ UNCHANGED <<settings, registry, authResult, request, raw_headers, gen, pending, yielded, sent,
                   disconnected>>

\* GET /v1/models/{model_id}
GetModelEndpoint(r, h, model_id) ==
    /\ pc[r] = "idle"
    /\ http' = [http EXCEPT ![r] = HttpRequest("get_model", h, model_id, NoBody)]
    /\ response' = [response EXCEPT ![r] = AnswerGetModel(h, model_id, settings)]
    /\ pc' = [pc EXCEPT ![r] = "responded"]
    /\ UNCHANGED <<settings, registry, authResult, request, raw_headers, gen, pending, yielded, sent,
                   disconnected>>

\* POST /v1/chat/completions. With stream=true the StreamingResponse is built
\* (create_from_generator, __init__) and the server starts calling it.
CreateChatCompletion(r, h, body) ==
    /\ pc[r] = "idle"
    /\ http' = [http EXCEPT ![r] = HttpRequest("chat", h, <<>>, body)]
    /\ LET ans == AnswerChat(h, body, settings) IN
       /\ request' = [request EXCEPT ![r] = ans.request]
       /\ IF ans.streams
          THEN /\ gen' = [gen EXCEPT ![r] = ChatGen(ans.request)]
               /\ raw_headers' = [raw_headers EXCEPT ![r] = InitRawHeaders(<<>>)]
               /\ pc' = [pc EXCEPT ![r] = "start"]
               /\ UNCHANGED response
          ELSE /\ response' = [response EXCEPT ![r] = ans.response]
               /\ pc' = [pc EXCEPT ![r] = "responded"]
               /\ UNCHANGED <<raw_headers, gen>>
    /\ UNCHANGED <<settings, registry, authResult, pending, yielded, sent, disconnected>>

\* The request gets as far as the body of its route's handler.
ReachesHandler(req, s) ==
    CASE req.route \in {"health", "v1_root"} -> TRUE
      [] req.route \in {"list_models", "get_model"} ->
            RouteGetApiKey(req.authorization, s).accepted
      [] OTHER ->
            /\ req.body.kind # "malformed"
            /\ RouteGetApiKey(req.authorization, s).accepted
            /\ ValidateBody(req.body).ok

\* An exception nothing expects leaves the handler before it has answered:
\* generic_exception_handler answers in its place.
GenericExceptionHandler(r, req, exc) ==
    /\ pc[r] = "idle"
    /\ ReachesHandler(req, settings)
    /\ http' = [http EXCEPT ![r] = [req EXCEPT !.exc = exc]]
    /\ response' = [response EXCEPT ![r] = InternalErrorResponse(exc)]
    /\ pc' = [pc EXCEPT ![r] = "responded"]
    /\ UNCHANGED <<settings, registry, authResult, request, raw_headers, gen, pending, yielded, sent,
                   disconnected>>

\* StreamingResponse(content=<a regular generator over items>, headers=headers),
\* called by the server as an ASGI application.
ServeGenerator(r, items, headers) ==
    /\ pc[r] = "idle"
    /\ gen' = [gen EXCEPT ![r] = ListGen(items)]
    /\ raw_headers' = [raw_headers EXCEPT ![r] = InitRawHeaders(headers)]
    /\ pc' = [pc EXCEPT ![r] = "start"]
    /\ UNCHANGED <<settings, registry, authResult, http, request, response, pending, yielded, sent,
                   disconnected>>

\* stream_response: await send({"type": "http.response.start", ...})
SendStart(r) ==
    /\ pc[r] = "start"
    /\ sent' = [sent EXCEPT ![r] = Append(@, StartEvent(200, raw_headers[r]))]
    /\ pc' = [pc EXCEPT ![r] = "pull"]
    /\ UNCHANGED <<settings, registry, authResult, http, request, response, raw_headers, gen, pending,
                   yielded, disconnected>>

\* One frame buffer for all the streams.
Pull_SharedBuffer(r, uuid, now) ==
    /\ pc[r] = "pull"
    /\ GenReady(gen[r])
    /\ LET n == GenNext(gen[r], uuid, now) IN
       /\ gen' = [gen EXCEPT ![r] = n.g]
       /\ IF n.stop
          THEN /\ pc' = [pc EXCEPT ![r] = "done"]
               /\ UNCHANGED <<pending, yielded>>
          ELSE /\ pc' = [pc EXCEPT ![r] = "send"]
               /\ pending' = [q \in Requests |-> SerializeChunk(n.chunk)]
               /\ yielded' = [yielded EXCEPT ![r] = Append(@, n.chunk)]
    /\ UNCHANGED <<settings, registry, authResult, http, request, response, raw_headers, sent, disconnected>>

\* `async for chunk in self._get_content_generator()` asks for the next frame:
\* the content generator runs to its next yield, which is serialized, or ends.
Pull(r, uuid, now) ==
    /\ pc[r] = "pull"
    /\ GenReady(gen[r])
    /\ LET n == GenNext(gen[r], uuid, now) IN
       /\ gen' = [gen EXCEPT ![r] = n.g]
       /\ IF n.stop
          THEN /\ pc' = [pc EXCEPT ![r] = "done"]
               /\ UNCHANGED <<pending, yielded>>
          ELSE /\ pc' = [pc EXCEPT ![r] = "send"]
               /\ pending' = [pending EXCEPT ![r] = SerializeChunk(n.chunk)]
               /\ yielded' = [yielded EXCEPT ![r] = Append(@, n.chunk)]
    /\ UNCHANGED <<settings, registry, authResult, http, request, response, raw_headers, sent, disconnected>>

\* generate_streaming_response: `await asyncio.sleep(0.1)` after a word chunk
ProducerSleep(r) ==
    /\ pc[r] = "pull"
    /\ gen[r].kind = "chat" /\ gen[r].state = "yielded" /\ ~gen[r].final
    /\ gen' = [gen EXCEPT ![r].state = "slept"]
    /\ UNCHANGED <<settings, registry, authResult, http, pc, request, response, raw_headers, pending,
                   yielded, sent, disconnected>>

\* _get_content_generator, regular generator: `await asyncio.sleep(0.001)` after the yield
FramerSleep(r) ==
    /\ pc[r] = "pull"
    /\ gen[r].kind = "list" /\ gen[r].state = "yielded"
    /\ gen' = [gen EXCEPT ![r].state = "slept"]
    /\ UNCHANGED <<settings, registry, authResult, http, pc, request, response, raw_headers, pending,
                   yielded, sent, disconnected>>

\* The content generator raises when resumed (a failing provider, a cancelled
\* sleep): nothing in stream_response or __call__ catches it.
ProducerRaises(r) ==
    /\ pc[r] = "pull"
    /\ gen[r].state \notin {"exhausted", "raised"}
    /\ gen' = [gen EXCEPT ![r].state = "raised"]
    /\ pc' = [pc EXCEPT ![r] = "failed"]
    /\ UNCHANGED <<settings, registry, authResult, http, request, response, raw_headers, pending, yielded,
                   sent, disconnected>>

\* A framer that keeps the frame back and asks for the next chunk.
SendChunk_Buffered(r) ==
    /\ pc[r] = "send"
    /\ pc' = [pc EXCEPT ![r] = "pull"]
    /\ UNCHANGED <<settings, registry, authResult, http, request, response, raw_headers, gen, pending,
                   yielded, sent, disconnected>>

\* stream_response: await send({"type": "http.response.body", "body": chunk.encode(), ...})
SendChunk(r) ==
    /\ pc[r] = "send"
    /\ sent' = [sent EXCEPT ![r] = Append(@, BodyEvent(pending[r], TRUE))]
    /\ pending' = [pending EXCEPT ![r] = <<>>]
    /\ pc' = [pc EXCEPT ![r] = "pull"]
    /\ UNCHANGED <<settings, registry, authResult, http, request, response, raw_headers, gen, yielded,
                   disconnected>>

\* stream_response going on to the closing body without the [DONE] marker.
SendDone_NoMarker(r) ==
    /\ pc[r] = "done"
    /\ pc' = [pc EXCEPT ![r] = "end"]
    /\ UNCHANGED <<settings, registry, authResult, http, request, response, raw_headers, gen, pending,
                   yielded, sent, disconnected>>

\* stream_response: the [DONE] marker
SendDone(r) ==
    /\ pc[r] = "done"
    /\ sent' = [sent EXCEPT ![r] = Append(@, BodyEvent(SerializeDone, TRUE))]
    /\ pc' = [pc EXCEPT ![r] = "end"]
    /\ UNCHANGED <<settings, registry, authResult, http, request, response, raw_headers, gen, pending,
                   yielded, disconnected>>

\* A closing body that leaves the response open.
SendEnd_MoreBody(r) ==
    /\ pc[r] = "end"
    /\ sent' = [sent EXCEPT ![r] = Append(@, BodyEvent(<<>>, TRUE))]
    /\ pc' = [pc EXCEPT ![r] = "closed"]
    /\ UNCHANGED <<settings, registry, authResult, http, request, response, raw_headers, gen, pending,
                   yielded, disconnected>>

\* stream_response: the empty body with more_body False; __call__ then returns
\* (background is None)
SendEnd(r) ==
    /\ pc[r] = "end"
    /\ sent' = [sent EXCEPT ![r] = Append(@, BodyEvent(<<>>, FALSE))]
    /\ pc' = [pc EXCEPT ![r] = "closed"]
    /\ UNCHANGED <<settings, registry, authResult, http, request, response, raw_headers, gen, pending,
                   yielded, disconnected>>

\* The client closes the connection. __call__ never calls receive(), so the
\* handling task is not told.
ClientDisconnect(r) ==
    /\ Streaming(r)
    /\ ~disconnected[r]
    /\ disconnected' = [disconnected EXCEPT ![r] = TRUE]
    /\ UNCHANGED <<settings, registry, authResult, http, pc, request, response, raw_headers, gen, pending,
                   yielded, sent>>

\* send() on a closed connection: a server may drop the event silently (the
\* Send* actions above) or raise, which ends stream_response where it stands.
SendRaises(r) ==
    /\ disconnected[r]
    /\ pc[r] \in {"start", "send", "done", "end"}
    /\ pc' = [pc EXCEPT ![r] = "failed"]
    /\ UNCHANGED <<settings, registry, authResult, http, request, response, raw_headers, gen, pending,
                   yielded, sent, disconnected>>

\* The request is over (answered, its stream closed, or its task ended by an
\* exception): the application object lives on and takes the next request.
NextRequest(r) ==
    /\ pc[r] \in {"responded", "closed", "failed"}
    /\ pc' = [pc EXCEPT ![r] = "idle"]
    /\ http' = [http EXCEPT ![r] = NoHttp]
    /\ request' = [request EXCEPT ![r] = NoRequest]
    /\ response' = [response EXCEPT ![r] = NoResponse]
    /\ raw_headers' = [raw_headers EXCEPT ![r] = <<>>]
    /\ gen' = [gen EXCEPT ![r] = NoGen]
    /\ pending' = [pending EXCEPT ![r] = <<>>]
    /\ yielded' = [yielded EXCEPT ![r] = <<>>]
    /\ sent' = [sent EXCEPT ![r] = <<>>]
    /\ disconnected' = [disconnected EXCEPT ![r] = FALSE]
    /\ UNCHANGED <<settings, registry, authResult>>

Next ==
    \E r \in Requests :
        \/ \E h \in AuthHeaders : HealthCheck(r, h)
        \/ \E h \in AuthHeaders : ReadV1Root(r, h)
        \/ \E h \in AuthHeaders : ListModelsEndpoint(r, h)
        \/ \E h \in AuthHeaders, model_id \in PathModelIds : GetModelEndpoint(r, h, model_id)
        \/ \E h \in AuthHeaders, body \in ChatBodies : CreateChatCompletion(r, h, body)
        \/ \E req \in HttpRequests, exc \in Exceptions : GenericExceptionHandler(r, req, exc)
        \/ \E items \in SyncItemLists, headers \in UserHeaders :
              ServeGenerator(r, items, headers)
        \/ SendStart(r)
        \/ \E uuid \in UuidHex, now \in Clock : Pull(r, uuid, now)
        \/ ProducerSleep(r)
        \/ FramerSleep(r)
        \/ ProducerRaises(r)
        \/ SendChunk(r)
        \/ SendDone(r)
        \/ SendEnd(r)
        \/ ClientDisconnect(r)
        \/ SendRaises(r)
        \/ NextRequest(r)

Spec == Init /\ [][Next]_vars

NextAuth ==
    \E h \in AuthHeaders : CallRouteGate(h) \/ CallSecurityGate(h)

SpecAuth == InitAuth /\ [][NextAuth]_vars

\* Two requests served at once by the one event loop.
InitStreams ==
    /\ settings = TestSettings
    /\ registry = AVAILABLE_MODELS
    /\ authResult = NoAuthResult
    /\ InitRequests(Requests)

\* The chat requests of a client that holds the key and asks for a stream.
StreamRequests ==
    {req \in ChatRequests :
        req.stream /\ req.model = MODEL_STANDARD /\ Len(req.messages) = 1}

\* The regular generator of a caller of StreamingResponse: MaxSyncItems chunks,
\* the last of them terminal.
StreamItemLists ==
    {items \in SyncItemLists :
        /\ Len(items) = MaxSyncItems
        /\ \A i \in DOMAIN items :
              (items[i].choices[1].delta = <<>>) <=> (i = Len(items))}

\* time.time() while the two streams start
StreamClock == CHOOSE now \in Clock : \A other \in Clock : now <= other

\* uuid.uuid4().hex in each of the two requests: no value comes twice
StreamUuid == CHOOSE f \in [Requests -> UuidHex] : \A r, q \in Requests : r # q => f[r] # f[q]

\* A step of the task of request r other than resuming the content generator:
\* a send() or the end of a sleep.
SendOrWake(r) ==
    \/ SendStart(r)
    \/ ProducerSleep(r)
    \/ FramerSleep(r)
    \/ SendChunk(r)
    \/ SendDone(r)
    \/ SendEnd(r)

\* A step of the task that runs stream_response for request r: what the event
\* loop runs when it resumes the task.
StreamStep(r) == SendOrWake(r) \/ Pull(r, StreamUuid[r], StreamClock)

NextStreams ==
    \E r \in Requests :
        \/ \E req \in StreamRequests :
              CreateChatCompletion(r, BearerHeader(TEST_TOKEN), JsonBody(req))
        \/ \E items \in StreamItemLists : ServeGenerator(r, items, <<>>)
        \/ StreamStep(r)

\* Weak fairness of the Pull step of request r, written out as
\* []<>~ENABLED <<A>>_vars \/ []<><<A>>_vars: every Pull changes pc, so
\* ENABLED <<Pull>>_vars is the guard of Pull.
PullFairness(r) ==
    \/ []<>~(pc[r] = "pull" /\ GenReady(gen[r]))
    \/ []<><<Pull(r, StreamUuid[r], StreamClock)>>_vars

\* asyncio runs every task that is ready and wakes every sleeper whose delay
\* is over: a task that can take a step is not passed over for ever.
SpecStreams ==
    /\ InitStreams
    /\ [][NextStreams]_vars
    /\ \A r \in Requests : WF_vars(SendOrWake(r)) /\ PullFairness(r)

-----------------------------------------------------------------------------
(* Properties *)

\* The sentinel frame as the protocol writes it: data: [DONE] and a blank line.
DoneFrameText ==
    <<"d","a","t","a",":"," ","[","D","O","N","E","]","\n","\n">>

\* The body events passed to send() for request r, in order.
Bodies(r) == SelectSeq(sent[r], LAMBDA e : e.type = "http.response.body")

\* The body events that carry a chunk: neither the sentinel nor the empty end.
ChunkFrames(r) ==
    SelectSeq(Bodies(r), LAMBDA e : e.body # DoneFrameText /\ e.body # <<>>)

DoneIndexes(r) == {i \in DOMAIN Bodies(r) : Bodies(r)[i].body = DoneFrameText}

\* The choice (there is one) of a chunk.
ChoiceOf(chunk) == chunk.choices[1]

\* A chunk is terminal: empty delta and finish_reason "stop".
IsTerminalChunk(chunk) ==
    /\ ChoiceOf(chunk).delta = <<>>
    /\ ChoiceOf(chunk).finish_reason = Some(<<"s","t","o","p">>)

\* The request's generator is generate_streaming_response and has returned.
ChatStreamComplete(r) == gen[r].kind = "chat" /\ gen[r].state = "exhausted"

\* C1: when the producer completes normally the sentinel frame data: [DONE] is
\* emitted exactly once, after every chunk frame (the terminal one included),
\* and only the empty closing body follows it. In every state: at most one
\* sentinel has been sent, it stands right after all the frames of the chunks
\* yielded, and every body after it is empty; once the producer has returned
\* the framer is about to send the sentinel or has sent it, unless send()
\* itself raised on a closed connection.
C1_DoneExactlyOnceAndLast ==
    \A r \in Requests :
        /\ Cardinality(DoneIndexes(r)) <= 1
        /\ \A i \in DoneIndexes(r) :
              /\ i = Len(yielded[r]) + 1
              /\ Len(ChunkFrames(r)) = Len(yielded[r])
              /\ \A j \in DOMAIN Bodies(r) : j > i => Bodies(r)[j].body = <<>>
        /\ gen[r].state = "exhausted" =>
              \/ pc[r] = "done" /\ DoneIndexes(r) = {}
              \/ pc[r] \in {"end", "closed"} /\ Cardinality(DoneIndexes(r)) = 1
              \/ pc[r] = "failed" /\ disconnected[r]
        /\ pc[r] = "closed" =>
              /\ Cardinality(DoneIndexes(r)) = 1
              /\ Bodies(r)[Len(Bodies(r))].body = <<>>
              /\ Bodies(r)[Len(Bodies(r)) - 1].body = DoneFrameText

\* C1 witness: a chat stream has run to its end, all 24 chunks framed, [DONE] sent.
C1_Witness ==
    \E r \in Requests :
        /\ pc[r] = "closed"
        /\ ChatStreamComplete(r)
        /\ Len(yielded[r]) = 24
        /\ DoneIndexes(r) = {25}

\* C2: if the producer raises after k chunks the stream still ends with the
\* sentinel: once the handling task has stopped after a producer failure, the
\* last non-empty body it sent is data: [DONE].
C2_DoneAfterProducerFailure ==
    \A r \in Requests :
        (gen[r].state = "raised" /\ pc[r] \in {"failed", "closed"}) =>
            \E i \in DoneIndexes(r) :
                \A j \in DOMAIN Bodies(r) : j > i => Bodies(r)[j].body = <<>>

\* C3: the chunks of generate_streaming_response hold exactly one terminal
\* chunk (empty delta, finish_reason "stop"); it is the last one, every chunk
\* before it has finish_reason null and carries content, nothing follows it.
C3_OneTerminalChunkLast ==
    \A r \in Requests :
        gen[r].kind = "chat" =>
            /\ \A i \in DOMAIN yielded[r] :
                  \/ /\ ChoiceOf(yielded[r][i]).finish_reason = None
                     /\ ChoiceOf(yielded[r][i]).delta # <<>>
                     /\ ~gen[r].final \/ i < Len(yielded[r])
                  \/ /\ IsTerminalChunk(yielded[r][i])
                     /\ i = Len(yielded[r])
                     /\ gen[r].final
            /\ gen[r].state = "exhausted" =>
                  /\ Len(yielded[r]) >= 1
                  /\ IsTerminalChunk(yielded[r][Len(yielded[r])])
                  /\ Cardinality({i \in DOMAIN yielded[r] : IsTerminalChunk(yielded[r][i])}) = 1

\* C3 witness: the generator has returned after 23 word chunks and the terminal one.
C3_Witness ==
    \E r \in Requests :
        /\ ChatStreamComplete(r)
        /\ Len(yielded[r]) = 24
        /\ IsTerminalChunk(yielded[r][24])
        /\ ~IsTerminalChunk(yielded[r][23])

\* C4: the first delta of a stream carries role "assistant" together with the
\* first content fragment ("THIS "); every later non-terminal delta carries a
\* content field and nothing else.
C4_RoleOnFirstDeltaOnly ==
    \A r \in Requests :
        gen[r].kind = "chat" =>
            \A i \in DOMAIN yielded[r] :
                LET d == ChoiceOf(yielded[r][i]).delta IN
                /\ i = 1 => d = <<<<(<<"r","o","l","e">>), (<<"a","s","s","i","s","t","a","n","t">>)>>,
                                  <<(<<"c","o","n","t","e","n","t">>), (<<"T","H","I","S"," ">>)>>>>
                /\ (i > 1 /\ ~IsTerminalChunk(yielded[r][i])) =>
                      /\ Len(d) = 1
                      /\ d[1][1] = <<"c","o","n","t","e","n","t">>
                      /\ d[1][2] # <<>>

\* C4 witness: the first three deltas of a chat stream have been yielded.
C4_Witness ==
    \E r \in Requests :
        /\ gen[r].kind = "chat"
        /\ Len(yielded[r]) = 3
        /\ Len(ChoiceOf(yielded[r][1]).delta) = 2
        /\ Len(ChoiceOf(yielded[r][3]).delta) = 1

\* str.rstrip()
RStrip(s) ==
    LET keep == {i \in DOMAIN s : ~IsSpace(s[i])} IN
    IF keep = {} THEN <<>>
    ELSE SubSeq(s, 1, CHOOSE i \in keep : \A k \in keep : k <= i)

\* The content of a delta, "" when it has none.
DeltaContent(delta) ==
    IF \E i \in DOMAIN delta : delta[i][1] = <<"c","o","n","t","e","n","t">>
    THEN delta[CHOOSE i \in DOMAIN delta : delta[i][1] = <<"c","o","n","t","e","n","t">>][2]
    ELSE <<>>

\* The content fields of the non-terminal deltas yielded so far, concatenated
\* in emission order.
StreamedContent(r) ==
    Flatten([i \in DOMAIN yielded[r] |->
                IF IsTerminalChunk(yielded[r][i]) THEN <<>>
                ELSE DeltaContent(ChoiceOf(yielded[r][i]).delta)])

\* C5 as stated: for the same request the concatenated streaming content
\* equals the content of the non-streaming completion, up to trailing
\* whitespace.
C5_RoundTripAsStated ==
    \A r \in Requests :
        ChatStreamComplete(r) =>
            RStrip(StreamedContent(r)) = RStrip(CompletionResponse(request[r]).content)

\* " with streaming!": what the streaming text has where the completion text ends.
StreamingSuffix ==
    <<" ","w","i","t","h"," ","s","t","r","e","a","m","i","n","g","!">>

\* C5 amended: the concatenated streaming content is the streaming message
\* followed by one space, so up to trailing whitespace it equals the streaming
\* message; that message and the non-streaming content agree up to and
\* including "working correctly", after which the streaming one continues
\* " with streaming!" and the non-streaming one ends with "!".
C5_RoundTripAmended ==
    \A r \in Requests :
        ChatStreamComplete(r) =>
            LET streamed == StreamedContent(r)
                whole == CompletionResponse(request[r]).content
                n == Len(whole)
            IN  /\ streamed = STREAM_RESPONSE_CONTENT \o <<" ">>
                /\ RStrip(streamed) = STREAM_RESPONSE_CONTENT
                /\ SubSeq(streamed, 1, n - 1) = SubSeq(whole, 1, n - 1)
                /\ whole[n] = "!"
                /\ SubSeq(streamed, n, Len(streamed)) = StreamingSuffix \o <<" ">>

\* C5 witness: a chat stream is complete and its content has been put together.
C5_Witness ==
    \E r \in Requests :
        /\ ChatStreamComplete(r)
        /\ Len(StreamedContent(r)) = Len(STREAM_RESPONSE_CONTENT) + 1
        /\ request[r].stream

\* C6: the framer neither buffers nor reorders. The i-th chunk frame sent is
\* the serialization of the i-th chunk yielded; the chunk frames come first
\* among the bodies, in that order; at most one yielded chunk is unsent, and
\* it is the one the framer holds for its next send.
C6_NoBufferNoReorder ==
    \A r \in Requests :
        LET n == Len(ChunkFrames(r)) IN
        /\ n <= Len(yielded[r])
        /\ Len(yielded[r]) <= n + 1
        /\ \A i \in 1..n :
              /\ Bodies(r)[i] = ChunkFrames(r)[i]
              /\ Bodies(r)[i].body = SerializeChunk(yielded[r][i])
        /\ Len(yielded[r]) = n + 1 => pending[r] = SerializeChunk(yielded[r][n + 1])
        /\ Len(yielded[r]) = n => pending[r] = <<>>
        /\ pc[r] = "pull" => Len(yielded[r]) = n

\* C6 witness: three frames are out and a fourth chunk waits for its send.
C6_Witness ==
    \E r \in Requests :
        /\ Len(ChunkFrames(r)) = 3
        /\ Len(yielded[r]) = 4
        /\ pc[r] = "send"

\* C7: after the client has disconnected the framer requests no further chunk
\* from the producer: no step taken while the client is gone lengthens the
\* sequence of chunks produced.
C7_NoChunkAfterDisconnect ==
    [][\A r \in Requests : disconnected[r] => yielded'[r] = yielded[r]]_vars

\* The four transport headers.
SseHeaders ==
    {<<"Content-Type", "text/event-stream">>, <<"Cache-Control", "no-cache">>,
     <<"Connection", "keep-alive">>, <<"Transfer-Encoding", "chunked">>}

\* C8: the response-start event with the four transport headers is sent
\* exactly once, before any body, and the headers are the ones fixed when the
\* response was built: the first event is the only start event, it carries the
\* response's header list with the four SSE headers in it, and that list is
\* still the response's at every later step.
C8_HeadersOnceBeforeBody ==
    \A r \in Requests :
        /\ pc[r] \in {"pull", "send", "done", "end", "closed"} => sent[r] # <<>>
        /\ sent[r] # <<>> =>
              /\ sent[r][1].type = "http.response.start"
              /\ sent[r][1].status = 200
              /\ SseHeaders \subseteq Range(sent[r][1].headers)
              /\ sent[r][1].headers = raw_headers[r]
              /\ \A i \in 2..Len(sent[r]) : sent[r][i].type = "http.response.body"

\* C8 witness: a stream with a caller's header has sent its start and two bodies.
C8_Witness ==
    \E r \in Requests :
        /\ Len(sent[r]) = 3
        /\ Len(raw_headers[r]) = 5
        /\ sent[r][3].type = "http.response.body"

\* The frame e is "data: ", one JSON object without a raw line break, "\n\n".
IsOneSseEvent(body) ==
    LET n == Len(body) IN
    /\ n >= 10
    /\ SubSeq(body, 1, 6) = <<"d","a","t","a",":"," ">>
    /\ body[7] = "{"
    /\ body[n - 2] = "}"
    /\ body[n - 1] = "\n" /\ body[n] = "\n"
    /\ \A i \in 7..(n - 2) : body[i] \notin {"\n", "\r"}

\* C9: every produced chunk is sent as exactly one SSE event: data: , one
\* JSON object with no raw newline in it, and a blank line; frames and chunks
\* correspond one to one.
C9_OneEventPerChunk ==
    \A r \in Requests :
        /\ \A i \in DOMAIN ChunkFrames(r) : IsOneSseEvent(ChunkFrames(r)[i].body)
        /\ pending[r] # <<>> => IsOneSseEvent(pending[r])
        /\ Len(ChunkFrames(r)) + (IF pending[r] # <<>> THEN 1 ELSE 0) = Len(yielded[r])

\* C9 witness: a frame has been sent for a chunk whose model id holds a line break.
C9_Witness ==
    \E r \in Requests :
        /\ Len(ChunkFrames(r)) >= 1
        /\ "\n" \in Range(yielded[r][1].model)

\* Letters, digits, underscore, hyphen and dot only, and at least one of them.
WellFormedToken(t) ==
    /\ Len(t) >= 1
    /\ \A i \in DOMAIN t :
          \/ \E k \in DOMAIN UPPER : t[i] = UPPER[k] \/ t[i] = LOWER[k]
          \/ \E k \in DOMAIN DIGITS : t[i] = DIGITS[k]
          \/ t[i] \in {"_", "-", "."}

\* Tokens a caller may put after "Bearer ".
PresentedTokens == TokenUniverse \cup {DEV_TOKEN}

AllowList == Range(settings.api_auth_tokens)

\* C10 as stated: a gate accepts every header Bearer <t> whose t is in the
\* allow-list and returns t, and rejects every well-formed t (allowed
\* characters, long enough for the environment) that is not in the allow-list
\* with 401 and code invalid_key.
C10_AllowListDecidesAsStated ==
    \A t \in PresentedTokens :
        (authResult.gate # "none" /\ authResult.header = BearerHeader(t)) =>
            /\ t \in AllowList => authResult.outcome = Accept(t)
            /\ (t \notin AllowList /\ WellFormedToken(t)
                  /\ (Len(t) >= 16 \/ settings.environment \notin {"production", "staging"})) =>
                  authResult.outcome = Reject401("invalid_key")

\* C10 amended: a gate accepts every header Bearer <t> whose t is in the
\* allow-list and is syntactically well-formed (letters, digits, underscore,
\* hyphen, dot only), and returns t; every well-formed t (those characters,
\* and at least 16 long in production and staging) that is not in the
\* allow-list is rejected with 401 and code invalid_key.
C10_AllowListDecidesAmended ==
    \A t \in PresentedTokens :
        (authResult.gate # "none" /\ authResult.header = BearerHeader(t)) =>
            /\ (t \in AllowList /\ WellFormedToken(t)) => authResult.outcome = Accept(t)
            /\ (t \notin AllowList /\ WellFormedToken(t)
                  /\ (Len(t) >= 16 \/ settings.environment \notin {"production", "staging"})) =>
                  authResult.outcome = Reject401("invalid_key")

\* C10 witness: in production core.security's gate has accepted an
\* allow-listed key while a second key is configured too.
C10_Witness ==
    /\ authResult.gate = "security"
    /\ settings.environment = "production"
    /\ authResult.header = BearerHeader(TOK_LONG)
    /\ authResult.outcome = Accept(TOK_LONG)
    /\ Len(settings.api_auth_tokens) = 2

\* The header is two whitespace-separated parts, the first "bearer" in any case.
IsBearerHeader(h) ==
    /\ h.present
    /\ Len(Split(h.value)) = 2
    /\ Lower(Split(h.value)[1]) = S_bearer

\* The second part of a two-part header.
PresentedToken(h) == Split(h.value)[2]

\* C11: whichever get_api_key is called (the routes call the one of
\* api.v1.endpoints.models), an absent or empty Authorization header is
\* rejected with 401 and code missing_api_key, and a present header that is
\* not two parts with the first "bearer" in any case is rejected with 401 and
\* code invalid_auth_format.
C11_HeaderShapeRejections ==
    authResult.gate # "none" =>
        /\ (~authResult.header.present \/ Len(authResult.header.value) = 0) =>
              authResult.outcome = Reject401("missing_api_key")
        /\ (authResult.header.present /\ Len(authResult.header.value) > 0
              /\ ~IsBearerHeader(authResult.header)) =>
              authResult.outcome = Reject401("invalid_auth_format")

\* C12: for a two-part Bearer header whose token has only allowed
\* characters: in production and staging a token shorter than 16 is rejected
\* with code invalid_key_length; in development and test the allow-list alone
\* decides (accepted with the token if listed, else invalid_key).
C12_LengthPolicyByEnvironment ==
    (authResult.gate # "none" /\ IsBearerHeader(authResult.header)
        /\ WellFormedToken(PresentedToken(authResult.header))) =>
        LET t == PresentedToken(authResult.header) IN
        /\ (Len(t) < 16 /\ settings.environment \in {"production", "staging"}) =>
              authResult.outcome = Reject401("invalid_key_length")
        /\ settings.environment \in {"development", "test"} =>
              authResult.outcome =
                  IF t \in AllowList THEN Accept(t) ELSE Reject401("invalid_key")

\* C13: a two-part Bearer header whose token has a character outside
\* letters, digits, underscore, hyphen and dot is rejected with code
\* invalid_key_format, whatever its length and whether or not it is in the
\* allow-list, by whichever get_api_key is called.
C13_FormatCheckFirst ==
    (authResult.gate # "none" /\ IsBearerHeader(authResult.header)
        /\ ~WellFormedToken(PresentedToken(authResult.header))) =>
        authResult.outcome = Reject401("invalid_key_format")

\* The header holds a credential the deployment accepts: two parts, the first
\* "bearer" in any case, the second a token of the allow-list.
HoldsValidBearer(h) == IsBearerHeader(h) /\ PresentedToken(h) \in AllowList

\* The ids of the models list_models() returns.
RegistryIds == {list_models.data[i].id : i \in DOMAIN list_models.data}

\* The JSON body is an object with a model and messages.
BodyIsValid(body) == body.kind = "json" /\ body.has_model /\ body.has_messages

\* C14: a POST /v1/chat/completions that fails authentication is answered
\* 401, whatever its body; a 400 goes to an authenticated caller only.
C14_AuthBeforeBody ==
    \A r \in Requests :
        (http[r].route = "chat" /\ http[r].exc = "") =>
            /\ ~HoldsValidBearer(http[r].authorization) =>
                  (pc[r] = "responded" /\ response[r].status = 401)
            /\ response[r].status = 400 => HoldsValidBearer(http[r].authorization)

\* C15: an authenticated POST /v1/chat/completions with a valid body whose
\* model id is not in the registry is answered 400 with code model_not_found,
\* with stream true or false, and no completion or stream is made for it.
C15_UnknownModelRejected ==
    \A r \in Requests :
        (http[r].route = "chat" /\ http[r].exc = ""
            /\ HoldsValidBearer(http[r].authorization)
            /\ BodyIsValid(http[r].body)
            /\ http[r].body.model \notin RegistryIds) =>
            /\ pc[r] = "responded"
            /\ response[r].status = 400
            /\ response[r].code = "model_not_found"
            /\ gen[r] = NoGen
            /\ Len(response[r].content) = 0

\* C16: an authenticated GET /v1/models/{id}, answered by get_model(id),
\* returns the entry of list_models() with that id exactly when there is
\* one; for any other id the answer is 404 with type invalid_request_error,
\* code model_not_found and param model_id, which is no 401 and no
\* authentication_error.
C16_GetModelFoundOrNotFound ==
    \A r \in Requests :
        (http[r].route = "get_model" /\ http[r].exc = ""
            /\ HoldsValidBearer(http[r].authorization)) =>
            LET id == http[r].model_id IN
            /\ pc[r] = "responded"
            /\ id \in RegistryIds =>
                  /\ response[r].status = 200
                  /\ \E i \in DOMAIN list_models.data :
                        /\ list_models.data[i].id = id
                        /\ response[r].data = <<list_models.data[i]>>
            /\ id \notin RegistryIds =>
                  /\ response[r].status = 404
                  /\ response[r].type = "invalid_request_error"
                  /\ response[r].code = "model_not_found"
                  /\ response[r].param = <<"m","o","d","e","l","_","i","d">>
                  /\ Len(response[r].data) = 0
            /\ response[r].status # 401
            /\ response[r].type # "authentication_error"

\* C16 witness: an authenticated lookup of an id that is in no registry has
\* been answered 404.
C16_Witness ==
    \E r \in Requests :
        /\ http[r].route = "get_model"
        /\ HoldsValidBearer(http[r].authorization)
        /\ http[r].model_id = MODEL_UNKNOWN
        /\ response[r].status = 404

\* C17: a GET /v1/models/{id} or a chat-completion request naming a model
\* that fails authentication gets the answer that the same request naming
\* any other model id gets: the same status, error code and whole response,
\* and never a stream.
C17_UnauthenticatedNoninterference ==
    \A r \in Requests :
        (http[r].route \in {"get_model", "chat"} /\ http[r].exc = ""
            /\ ~HoldsValidBearer(http[r].authorization)) =>
            LET h == http[r].authorization IN
            /\ pc[r] = "responded"
            /\ http[r].route = "get_model" =>
                  \A id \in PathModelIds :
                      AnswerGetModel(h, id, settings) = response[r]
            /\ (http[r].route = "chat" /\ http[r].body.has_model) =>
                  \A m \in ModelIds :
                      LET other == AnswerChat(h, [http[r].body EXCEPT !.model = m], settings)
                      IN  ~other.streams /\ other.response = response[r]

\* C17 witness: a lookup of a registered model id with a key that is not
\* allow-listed has been answered 401.
C17_Witness ==
    \E r \in Requests :
        /\ http[r].route = "get_model"
        /\ http[r].model_id = MODEL_STANDARD
        /\ http[r].authorization = BearerHeader(TOK_LONG)
        /\ response[r].status = 401

\* C18: a request to any route but /health without a valid Bearer token is
\* answered 401; GET /health without an Authorization header is answered 200
\* with {"status": "ok"}.
C18_OnlyHealthIsOpen ==
    \A r \in Requests :
        (http[r].route # "none" /\ http[r].exc = "") =>
            /\ (http[r].route # "health" /\ ~HoldsValidBearer(http[r].authorization)) =>
                  (pc[r] = "responded" /\ response[r].status = 401)
            /\ (http[r].route = "health" /\ ~http[r].authorization.present) =>
                  /\ response[r].status = 200
                  /\ response[r].payload = <<S_status, S_ok>>

\* C19: every error response (status 400 and above) has a top-level `error`
\* object with a message, a code and a type that is authentication_error,
\* invalid_request_error or server_error.
C19_UniformErrorEnvelope ==
    \A r \in Requests :
        (pc[r] = "responded" /\ response[r].status >= 400) =>
            /\ response[r].envelope = "error"
            /\ Len(response[r].message) > 0
            /\ response[r].code # ""
            /\ response[r].type \in
                  {"authentication_error", "invalid_request_error", "server_error"}

\* C20: an authenticated chat-completion request whose body is absent, is
\* not JSON, or lacks a required member is answered 400 with type
\* invalid_request_error and code validation_error, and neither a completion
\* nor a stream is made for it.
C20_InvalidBodyRejected ==
    \A r \in Requests :
        (http[r].route = "chat" /\ HoldsValidBearer(http[r].authorization)
            /\ ~BodyIsValid(http[r].body)) =>
            /\ pc[r] = "responded"
            /\ response[r].status = 400
            /\ response[r].type = "invalid_request_error"
            /\ response[r].code = "validation_error"
            /\ response[r].object # "chat.completion"
            /\ Len(response[r].content) = 0
            /\ gen[r] = NoGen
            /\ Len(sent[r]) = 0

\* C20 witness: an authenticated request asking for a stream, its body
\* lacking messages, has been answered 400.
C20_Witness ==
    \E r \in Requests :
        /\ http[r].route = "chat"
        /\ HoldsValidBearer(http[r].authorization)
        /\ http[r].body.kind = "json"
        /\ ~http[r].body.has_messages
        /\ http[r].body.stream
        /\ response[r].status = 400

\* C21: an unexpected exception is answered 500 with a fixed generic body
\* that does not depend on the exception: the response to a request whose
\* handler raised is the one any other exception would have got, and its
\* message is the generic sentence.
C21_GenericBodyFor500 ==
    \A r \in Requests :
        http[r].exc # "" =>
            /\ pc[r] = "responded"
            /\ response[r].status = 500
            /\ response[r].message = MSG_INTERNAL
            /\ \A e \in Exceptions : response[r] = InternalErrorResponse(e)

\* C21 witness: a handler raised KeyError and the client got the 500.
C21_Witness ==
    \E r \in Requests :
        /\ http[r].exc = "KeyError"
        /\ response[r].status = 500

\* The characters of the contents of a request's messages, counted message
\* by message.
RECURSIVE ContentLengthFrom(_, _)
ContentLengthFrom(messages, i) ==
    IF i > Len(messages) THEN 0
    ELSE (IF messages[i].content.isNone THEN 0 ELSE Len(messages[i].content.s))
         + ContentLengthFrom(messages, i + 1)

ContentLength(req) == ContentLengthFrom(req.messages, 1)

\* A non-streaming completion has been answered to request r.
IsCompletion(r) == pc[r] = "responded" /\ response[r].object = "chat.completion"

\* C22: in every non-streaming completion prompt_tokens, completion_tokens
\* and total_tokens are non-negative and total_tokens is the sum of the other
\* two, also when some messages have no content.
C22_UsageAdditive ==
    \A r \in Requests :
        IsCompletion(r) =>
            /\ response[r].prompt_tokens >= 0
            /\ response[r].completion_tokens >= 0
            /\ response[r].total_tokens >= 0
            /\ response[r].total_tokens
                  = response[r].prompt_tokens + response[r].completion_tokens

\* C22 witness: a completion for a request one of whose messages has no content.
C22_Witness ==
    \E r \in Requests :
        /\ IsCompletion(r)
        /\ \E i \in DOMAIN request[r].messages : request[r].messages[i].content.isNone
        /\ response[r].prompt_tokens > 0

\* C23: usage is monotone in the input: against the completion answered to a
\* request, the completion of any request whose message contents are
\* strictly longer in total has strictly more prompt_tokens, the same
\* completion_tokens, and a total_tokens that differs by what prompt_tokens
\* differs.
C23_UsageMonotone ==
    \A r \in Requests :
        IsCompletion(r) =>
            \A second \in ChatRequests :
                ContentLength(second) > ContentLength(request[r]) =>
                    LET usage == CompletionResponse(second) IN
                    /\ usage.prompt_tokens > response[r].prompt_tokens
                    /\ usage.completion_tokens = response[r].completion_tokens
                    /\ usage.total_tokens - response[r].total_tokens
                          = usage.prompt_tokens - response[r].prompt_tokens

\* C23 witness: a completion answered to a request, and a request with
\* fewer messages whose contents are longer.
C23_Witness ==
    \E r \in Requests :
        /\ IsCompletion(r)
        /\ \E second \in ChatRequests :
              /\ ContentLength(second) > ContentLength(request[r])
              /\ Len(second.messages) < Len(request[r].messages)

\* The ids list_models() returns, in the order it returns them.
ListedIds == [i \in DOMAIN list_models.data |-> list_models.data[i].id]

\* The ids of the registry as the module builds it at import.
StartupIds == [i \in DOMAIN AVAILABLE_MODELS |-> AVAILABLE_MODELS[i].id]

\* C26: no request, answered or rejected, on any endpoint, changes the token
\* allow-list or the model registry: no step changes either, list_models()
\* returns the ids of startup in their order in every state, and every
\* listing answered carries them.
C26_AllowListAndRegistryFrozen ==
    /\ [][settings' = settings /\ registry' = registry]_vars
    /\ [](/\ ListedIds = StartupIds
          /\ settings = TestSettings
          /\ \A r \in Requests :
                (http[r].route = "list_models" /\ response[r].status = 200) =>
                    [i \in DOMAIN response[r].data |-> response[r].data[i].id] = StartupIds)

\* C26 witness: a listing has been answered, with the three ids of startup.
C26_Witness ==
    \E r \in Requests :
        /\ http[r].route = "list_models"
        /\ response[r].status = 200
        /\ Len(response[r].data) = 3
        /\ ListedIds = <<MODEL_STANDARD, MODEL_ADVANCED, MODEL_EXPERIMENTAL>>

\* The object member of a streamed chunk, as clients expect it.
ChunkObjectText ==
    <<"c","h","a","t",".","c","o","m","p","l","e","t","i","o","n",".","c","h","u","n","k">>

\* C28: all chunks of one chat stream, the terminal one included, carry the
\* same id and the same created value, have object chat.completion.chunk and
\* have the model the request named.
C28_ChunksShareIdentity ==
    \A r \in Requests :
        gen[r].kind = "chat" =>
            \A i \in DOMAIN yielded[r] :
                /\ yielded[r][i].id = yielded[r][1].id
                /\ yielded[r][i].created = yielded[r][1].created
                /\ yielded[r][i].object = ChunkObjectText
                /\ yielded[r][i].model = request[r].model
                /\ yielded[r][i].model = http[r].body.model

\* C28 witness: a chat stream has yielded all its chunks, the terminal one last.
C28_Witness ==
    \E r \in Requests :
        /\ ChatStreamComplete(r)
        /\ Len(yielded[r]) = 24
        /\ IsTerminalChunk(yielded[r][24])
        /\ yielded[r][24].model = MODEL_ODD

\* C29: the settings a process has loaded hold a non-empty allow-list in
\* every environment, and in production and staging every token of it is at
\* least 16 long; so a rejection with code invalid_key_length never falls on
\* a token of the allow-list.
C29_LoadedAllowListSound ==
    /\ Len(settings.api_auth_tokens) >= 1
    /\ settings.environment \in {"production", "staging"} =>
          \A i \in DOMAIN settings.api_auth_tokens : Len(settings.api_auth_tokens[i]) >= 16
    /\ authResult.outcome.code = "invalid_key_length" =>
          /\ IsBearerHeader(authResult.header)
          /\ PresentedToken(authResult.header) \notin AllowList

\* C29 witness: in staging a short token has been rejected for its length
\* while the allow-list holds two tokens.
C29_Witness ==
    /\ settings.environment = "staging"
    /\ Len(settings.api_auth_tokens) = 2
    /\ authResult.gate = "security"
    /\ authResult.outcome = Reject401("invalid_key_length")

\* C30: the gate of the routes accepts whatever core.security's gate
\* accepts: for the header and settings of every call core.security's
\* get_api_key has accepted, the get_api_key of api.v1.endpoints.models
\* accepts too and returns the same token; and both reject an absent header
\* with code missing_api_key.
C30_RouteGateRefinesSecurityGate ==
    /\ (authResult.gate = "security" /\ authResult.outcome.accepted) =>
          /\ RouteGetApiKey(authResult.header, settings).accepted
          /\ RouteGetApiKey(authResult.header, settings).token = authResult.outcome.token
    /\ (authResult.gate = "route" /\ ~authResult.outcome.accepted) =>
          ~SecurityGetApiKey(authResult.header, settings).accepted
    /\ (authResult.gate # "none" /\ ~authResult.header.present) =>
          authResult.outcome = Reject401("missing_api_key")

\* C30 witness: core.security's gate has accepted a header whose scheme is
\* written in lower case.
C30_Witness ==
    /\ authResult.gate = "security"
    /\ authResult.outcome.accepted
    /\ authResult.header.present
    /\ Split(authResult.header.value)[1] = S_bearer

\* Everything the program holds for request r alone.
RequestState(r) ==
    [pc |-> pc[r], http |-> http[r], request |-> request[r], response |-> response[r],
     raw_headers |-> raw_headers[r], gen |-> gen[r], pending |-> pending[r],
     yielded |-> yielded[r], sent |-> sent[r], disconnected |-> disconnected[r]]

\* The chunks the generator of request r yields when nothing else runs: a
\* function of what the generator was made from and of the id and time it read.
AloneChunks(r) ==
    IF gen[r].kind = "chat"
    THEN [k \in 1..(Len(Words) + 1) |->
             IF k <= Len(Words) THEN WordChunk(gen[r], k - 1) ELSE FinalChunk(gen[r])]
    ELSE gen[r].items

\* The k-th event the client of request r receives when its stream runs alone.
AloneFrame(r, k) ==
    LET n == Len(AloneChunks(r)) IN
    IF k = 1 THEN StartEvent(200, raw_headers[r])
    ELSE IF k <= n + 1 THEN BodyEvent(SerializeChunk(AloneChunks(r)[k - 1]), TRUE)
    ELSE IF k = n + 2 THEN BodyEvent(DoneFrameText, TRUE)
    ELSE BodyEvent(<<>>, FALSE)

\* C24: concurrent streams are independent. A step changes what the program
\* holds for one request only; what a generator was made from and the id and
\* time it read stay as they are; every event sent to a client is the next
\* event of its stream run alone; and a closed stream has sent all of them.
C24_StreamsIndependent ==
    /\ [][\A r, q \in Requests :
            (r # q /\ RequestState(r)' # RequestState(r)) =>
                RequestState(q)' = RequestState(q)]_vars
    /\ [][\A r \in Requests :
            /\ Len(gen[r].response_id) > 0 =>
                  /\ gen'[r].response_id = gen[r].response_id
                  /\ gen'[r].created = gen[r].created
            /\ gen[r].kind # "none" =>
                  /\ gen'[r].model = gen[r].model
                  /\ gen'[r].items = gen[r].items
            /\ sent'[r] # sent[r] =>
                  sent'[r] = Append(sent[r], AloneFrame(r, Len(sent[r]) + 1))]_vars
    /\ [](\A r \in Requests :
            pc[r] = "closed" => Len(sent[r]) = Len(AloneChunks(r)) + 3)

\* C24 witness: two chat streams have closed, each after its 24 chunks, their
\* ids different.
C24_Witness ==
    /\ \A r \in Requests :
          /\ pc[r] = "closed"
          /\ gen[r].kind = "chat"
          /\ Len(ChunkFrames(r)) = 24
    /\ gen["r1"].response_id # gen["r2"].response_id

\* The task of request r is suspended in the sleep that follows a yield.
Sleeping(r) == pc[r] = "pull" /\ gen[r].state = "yielded" /\ ~gen[r].final

EndIndexes(r) ==
    {i \in DOMAIN sent[r] :
        sent[r][i].type = "http.response.body" /\ ~sent[r][i].more_body}

\* Where the framer of request r stands: 0 NotStarted, 1 HeaderSent,
\* 2 Streaming, 3 Terminal, 4 DoneSent, 5 Closed, read off what it has sent
\* and whether its producer has returned.
Phase(r) ==
    IF Len(sent[r]) = 0 THEN 0
    ELSE IF EndIndexes(r) # {} THEN 5
    ELSE IF DoneIndexes(r) # {} THEN 4
    ELSE IF gen[r].state = "exhausted" THEN 3
    ELSE IF Len(Bodies(r)) = 0 THEN 1
    ELSE 2

\* C27: the framer only moves forward through NotStarted, HeaderSent,
\* Streaming, Terminal, DoneSent, Closed; a stream whose producer is finite
\* and returns normally gets to Closed; and a closed stream has sent the empty
\* body with more_body false once, as its last event, right after [DONE].
C27_LifecycleForwardToClosed ==
    /\ [][\A r \in Requests : Streaming(r) => Phase(r)' >= Phase(r)]_vars
    /\ [](\A r \in Requests :
            /\ Cardinality(EndIndexes(r)) <= 1
            /\ EndIndexes(r) # {} <=> pc[r] = "closed"
            /\ pc[r] = "closed" =>
                  /\ Phase(r) = 5
                  /\ EndIndexes(r) = {Len(sent[r])}
                  /\ sent[r][Len(sent[r])].body = <<>>
                  /\ sent[r][Len(sent[r]) - 1].body = DoneFrameText)
    /\ \A r \in Requests : Streaming(r) ~> (pc[r] = "closed")

\* C27 witness: a stream over a regular generator has been closed while the
\* other stream is still at its chunks.
C27_Witness ==
    \E r, q \in Requests :
        /\ pc[r] = "closed" /\ gen[r].kind = "list"
        /\ Phase(r) = 5
        /\ Phase(q) = 2

====
